---- MODULE Spec2Model ----
(***************************************************************************)
(* Model of the document vector store (app/services/documents.py), the     *)
(* retrieval-augmented answerer (app/services/chat.py) and the two routers *)
(* that map their failures to HTTP statuses.                               *)
(*                                                                         *)
(* Text is a sequence of characters, each character a one-symbol string.   *)
(* Characters outside ASCII are written "J:<reading>" (one symbol each).   *)
(***************************************************************************)
EXTENDS Integers, Sequences, FiniteSets, TLC

VARIABLES store, last, written, procs, turns

vars == <<store, last, written, procs, turns>>

(***************************************************************************)
(* Bounds of the model.                                                    *)
(***************************************************************************)
\* created_at values a write can observe from the wall clock
MaxTime == 2
\* a question is a concatenation of at most MaxQParts pieces of QPieces
MaxQParts == 2
\* n_results of a direct search ranges over 0..MaxK
MaxK == 2

Ids == {"x", "y"}
Titles == {<<"A">>, <<"B">>}
Texts == {<<>>, <<"t", "1">>, <<"t", "2">>}
Times == 1..MaxTime
KValues == 0..MaxK

(***************************************************************************)
(* Sequence helpers.                                                       *)
(***************************************************************************)
RECURSIVE Concat(_)
Concat(ss) == IF ss = <<>> THEN <<>> ELSE Head(ss) \o Concat(Tail(ss))

\* Python: sub in s
Contains(s, sub) ==
    \E i \in 0..(Len(s) - Len(sub)) :
        \A j \in 1..Len(sub) : s[i + j] = sub[j]

RECURSIVE SumSeq(_)
SumSeq(s) == IF s = <<>> THEN 0 ELSE Head(s) + SumSeq(Tail(s))

(***************************************************************************)
(* EmbeddingEncoder: embedding_model.encode([text])[0].tolist().           *)
(* A deterministic function of the text into vectors of one dimension D.   *)
(***************************************************************************)
CharCode(c) ==
    CASE c = "1" -> 1
      [] c = "2" -> 2
      [] c = "t" -> 3
      [] c = "h" -> 4
      [] c = "i" -> 5
      [] OTHER -> 6

Encode(text) ==
    <<Len(text), SumSeq([i \in 1..Len(text) |-> CharCode(text[i])]) % 7>>

\* squared L2, the collection's default space
Distance(u, v) ==
    SumSeq([i \in 1..Len(u) |-> (u[i] - v[i]) * (u[i] - v[i])])

(***************************************************************************)
(* The collection: a map from the stored ids to (embedding, document,      *)
(* metadata) records.                                                      *)
(***************************************************************************)
CollectionGet(s, ids) == [x \in (DOMAIN s) \cap ids |-> s[x]]

CollectionCount(s) == Cardinality(DOMAIN s)

CollectionUpsertPartial(s, id, embedding, document, metadata) ==
    [x \in (DOMAIN s) \cup {id} |->
        IF x # id THEN s[x]
        ELSE IF id \in DOMAIN s
             THEN [s[id] EXCEPT !.document = document, !.metadata = metadata]
             ELSE [embedding |-> embedding, document |-> document,
                   metadata |-> metadata]]

CollectionUpsertAlone(s, id, embedding, document, metadata) ==
    [x \in {id} |->
        [embedding |-> embedding, document |-> document,
         metadata |-> metadata]]

CollectionUpsert(s, id, embedding, document, metadata) ==
    [x \in (DOMAIN s) \cup {id} |->
        IF x = id
        THEN [embedding |-> embedding, document |-> document,
              metadata |-> metadata]
        ELSE s[x]]

CollectionDelete(s, ids) == [x \in (DOMAIN s) \ ids |-> s[x]]

(***************************************************************************)
(* Exceptions: a chain of layers, outermost first; the last layer is the   *)
(* original cause (str(e) is embedded in each wrapping message).           *)
(***************************************************************************)
Layer(type, msg) == [type |-> type, msg |-> msg]

NoExc == <<>>

\* what a failing collaborator (store, encoder, completion API) raises
Fault(what) == <<Layer("LibraryError", what)>>

\* raise Exception(f"<msg>: {str(e)}") inside `except Exception as e`
Wrap(msg, e) == <<Layer("Exception", msg)>> \o e

Returned(v) == [outcome |-> "return", value |-> v, exc |-> NoExc]

Raised(e) == [outcome |-> "raise", value |-> <<>>, exc |-> e]

(***************************************************************************)
(* DocumentService (app/services/documents.py).  Each method is a function *)
(* of the collection, its arguments and the collaborator call that fails   *)
(* (fault, "none" when every call succeeds); it yields the collection      *)
(* afterwards and what the caller gets.                                    *)
(***************************************************************************)
Outcome(s, res) == [store |-> s, res |-> res]

AddFaults == {"none", "get", "encode", "upsert", "readback"}
SearchFaults == {"none", "encode", "query"}
GetFaults == {"none", "get"}
DeleteFaults == {"none", "delete"}
DeleteAllFaults == {"none", "count_before", "get", "delete", "count_after"}

DocMetadata(title, text, now) ==
    [title |-> title, created_at |-> now, text_length |-> Len(text)]

AddDocumentUpsertBeforeEncode(s, id, title, text, now, fault) ==
    LET embedding == Encode(text)
        saved == CollectionUpsert(s, id, embedding, text,
                                  DocMetadata(title, text, now))
        unencoded == CollectionUpsert(s, id, <<0, 0>>, text,
                                      DocMetadata(title, text, now))
    IN  CASE fault = "get" ->
               Outcome(s, Raised(Wrap("add_document failed", Fault("store"))))
          [] fault = "encode" ->
               Outcome(unencoded,
                       Raised(Wrap("add_document failed", Fault("encoder"))))
          [] fault = "upsert" ->
               Outcome(s, Raised(Wrap("add_document failed", Fault("store"))))
          [] fault = "readback" ->
               Outcome(saved,
                       Raised(Wrap("add_document failed", Fault("store"))))
          [] OTHER ->
               Outcome(saved,
                       Returned([vector_id |-> id, embedding |-> embedding]))

\* add_document: existence check, encode, upsert, read-back
add_document(s, id, title, text, now, fault) ==
    LET embedding == Encode(text)
        saved == CollectionUpsert(s, id, embedding, text,
                                  DocMetadata(title, text, now))
    IN  CASE fault = "get" ->
               Outcome(s, Raised(Wrap("add_document failed", Fault("store"))))
          [] fault = "encode" ->
               Outcome(s, Raised(Wrap("add_document failed", Fault("encoder"))))
          [] fault = "upsert" ->
               Outcome(s, Raised(Wrap("add_document failed", Fault("store"))))
          [] fault = "readback" ->
               Outcome(saved,
                       Raised(Wrap("add_document failed", Fault("store"))))
          [] OTHER ->
               Outcome(saved,
                       Returned([vector_id |-> id, embedding |-> embedding]))

\* get_document: the lookup of one id, with its embedding
get_document(s, document_id, fault) ==
    LET results == CollectionGet(s, {document_id})
    IN  IF fault = "get"
        THEN Outcome(s, Raised(Wrap("get_document failed", Fault("store"))))
        ELSE IF DOMAIN results = {}
        THEN Outcome(s, Raised(Wrap("get_document failed",
                                    <<Layer("Exception", "not found")>>)))
        ELSE Outcome(s, Returned(
                 [id |-> document_id,
                  title |-> results[document_id].metadata.title,
                  text |-> results[document_id].document,
                  metadata |-> results[document_id].metadata,
                  embedding |-> results[document_id].embedding]))

DeleteDocumentStrict(s, document_id, fault) ==
    IF fault = "delete" \/ document_id \notin DOMAIN s
    THEN Outcome(s, Raised(Wrap("delete_document failed", Fault("store"))))
    ELSE Outcome(CollectionDelete(s, {document_id}), Returned(TRUE))

DeleteDocumentTextOnly(s, document_id, fault) ==
    IF fault = "delete"
    THEN Outcome(s, Raised(Wrap("delete_document failed", Fault("store"))))
    ELSE Outcome([x \in DOMAIN s |->
                     IF x = document_id
                     THEN [s[x] EXCEPT !.document = <<>>]
                     ELSE s[x]],
                 Returned(TRUE))

\* delete_document
delete_document(s, document_id, fault) ==
    IF fault = "delete"
    THEN Outcome(s, Raised(Wrap("delete_document failed", Fault("store"))))
    ELSE Outcome(CollectionDelete(s, {document_id}), Returned(TRUE))

DeleteFirstOnly(s, all_ids) ==
    IF all_ids = {} THEN s
    ELSE CollectionDelete(s, {CHOOSE x \in all_ids : TRUE})

\* line 256: self.collection.delete(ids=all_ids)
DeleteListed(s, all_ids) == CollectionDelete(s, all_ids)

\* delete_all_documents: count, list the ids, delete them, count again
delete_all_documents(s, fault) ==
    LET count_before == CollectionCount(s)
        all_ids == DOMAIN CollectionGet(s, DOMAIN s)
        emptied == IF all_ids # {} THEN DeleteListed(s, all_ids) ELSE s
        count_after == CollectionCount(emptied)
        failed(t) == Outcome(t, Raised(Wrap("delete_all_documents failed",
                                            Fault("store"))))
    IN  CASE fault = "count_before" -> failed(s)
          [] fault = "get" -> failed(s)
          [] fault = "delete" /\ all_ids # {} -> failed(s)
          [] fault = "count_after" -> failed(emptied)
          [] OTHER ->
               Outcome(emptied,
                       Returned([success |-> TRUE,
                                 deleted_count |-> count_before - count_after]))

\* collection.get() lists the records in an order the store chooses
Orders(s) ==
    {r \in [1..CollectionCount(s) -> DOMAIN s] :
        \A i, j \in 1..CollectionCount(s) : i # j => r[i] # r[j]}

GetAllFaults == {"none", "get"}

GetAllDocumentsWithText(s, order, fault) ==
    LET WithText(x) == s[x].document # <<>>
        listed == SelectSeq(order, WithText)
    IN  IF fault = "get"
        THEN Outcome(s, Raised(Wrap("get_all_documents failed",
                                    Fault("store"))))
        ELSE Outcome(s, Returned(
                 [i \in 1..Len(listed) |->
                     [id |-> listed[i], document |-> s[listed[i]].document,
                      metadata |-> s[listed[i]].metadata]]))

InfoFaults == {"none", "count"}

\* get_collection_info: name, metadata and count of the collection
get_collection_info(s, fault) ==
    IF fault = "count"
    THEN Outcome(s, Raised(Wrap("get_collection_info failed",
                                Fault("store"))))
    ELSE Outcome(s, Returned([name |-> "documents",
                              metadata |-> [description |-> "J:description"],
                              count |-> CollectionCount(s)]))

\* get_all_documents: every record, without its embedding
get_all_documents(s, order, fault) ==
    IF fault = "get"
    THEN Outcome(s, Raised(Wrap("get_all_documents failed", Fault("store"))))
    ELSE Outcome(s, Returned(
             [i \in 1..Len(order) |->
                 [id |-> order[i], document |-> s[order[i]].document,
                  metadata |-> s[order[i]].metadata]]))

CreateEmptyCollection(s) == <<>>

\* __init__, lines 39-45: PersistentClient(path="./vector_db") and
\* get_or_create_collection(name="documents") open the collection that is
\* stored there, with what it holds
get_or_create_collection(s) == s

(***************************************************************************)
(* collection.query: the n nearest records by distance, nearest first.     *)
(* Records at equal distance come in an order the store chooses, so the    *)
(* query has a set of possible rankings (sequences of ids).                *)
(***************************************************************************)
Min(a, b) == IF a < b THEN a ELSE b

Rankings(s, q, n) ==
    LET m == Min(n, CollectionCount(s))
        d(x) == Distance(s[x].embedding, q)
    IN  {r \in [1..m -> DOMAIN s] :
            /\ \A i, j \in 1..m : i # j => r[i] # r[j]
            /\ \A i, j \in 1..m : i < j => d(r[i]) <= d(r[j])
            /\ \A x \in DOMAIN s :
                  (\A i \in 1..m : r[i] # x) => \A i \in 1..m : d(r[i]) <= d(x)}

\* the store's answer for one ranking: ids, documents, metadatas, distances
QueryResults(s, q, r) ==
    [i \in 1..Len(r) |->
        [id |-> r[i], document |-> s[r[i]].document,
         metadata |-> s[r[i]].metadata,
         distance |-> Distance(s[r[i]].embedding, q)]]

SimilarDocsReversed(results) ==
    [i \in 1..Len(results) |-> results[Len(results) + 1 - i]]

SimilarDocsDropLast(results) ==
    [i \in 1..(Len(results) - 1) |-> results[i]]

\* lines 138-147: the loop that reshapes the store's answer
SimilarDocs(results) ==
    [i \in 1..Len(results) |->
        [id |-> results[i].id, document |-> results[i].document,
         metadata |-> results[i].metadata, distance |-> results[i].distance]]

\* search_similar_documents; r is the ranking the store answers with.
\* The store rejects n_results <= 0.
search_similar_documents(s, query, n_results, r, fault) ==
    LET query_embedding == Encode(query)
        failed(what) ==
            Outcome(s, Raised(Wrap("search_similar_documents failed",
                                   Fault(what))))
    IN  CASE fault = "encode" -> failed("encoder")
          [] fault = "query" -> failed("store")
          [] n_results <= 0 -> failed("n_results")
          [] OTHER ->
               Outcome(s, Returned(SimilarDocs(
                              QueryResults(s, query_embedding, r))))

(***************************************************************************)
(* ChatService (app/services/chat.py).                                     *)
(***************************************************************************)
\* str.strip() removes these from both ends ("J:sp" is U+3000)
Whitespace == {" ", "\t", "\n", "\r", "\f", "J:sp"}

RECURSIVE LStrip(_)
LStrip(s) ==
    IF s # <<>> /\ Head(s) \in Whitespace THEN LStrip(Tail(s)) ELSE s

RECURSIVE RStrip(_)
RStrip(s) ==
    IF s # <<>> /\ s[Len(s)] \in Whitespace
    THEN RStrip(SubSeq(s, 1, Len(s) - 1))
    ELSE s

Strip(s) == RStrip(LStrip(s))

\* str.lower(): the ASCII capitals map to their small letters, every other
\* character of the model's alphabet is its own lower case
Capitals ==
    <<"A", "B", "C", "D", "E", "F", "G", "H", "I", "J", "K", "L", "M",
      "N", "O", "P", "Q", "R", "S", "T", "U", "V", "W", "X", "Y", "Z">>

Smalls ==
    <<"a", "b", "c", "d", "e", "f", "g", "h", "i", "j", "k", "l", "m",
      "n", "o", "p", "q", "r", "s", "t", "u", "v", "w", "x", "y", "z">>

LowerChar(c) ==
    IF \E i \in 1..Len(Capitals) : Capitals[i] = c
    THEN Smalls[CHOOSE i \in 1..Len(Capitals) : Capitals[i] = c]
    ELSE c

Lower(s) == [i \in 1..Len(s) |-> LowerChar(s[i])]

\* lines 145-154: the three phrase lists, in the order they are tried
greetings ==
    << <<"J:ko", "J:n", "J:ni", "J:chi", "J:ha">>,
       <<"J:ko", "J:n", "J:ba", "J:n", "J:ha">>,
       <<"J:o", "J:ha", "J:yo", "J:u">>,
       <<"h", "e", "l", "l", "o">>,
       <<"h", "i">>,
       <<"J:ha", "J:ji", "J:me", "J:ma", "J:shi", "J:te">> >>

thanks ==
    << <<"J:a", "J:ri", "J:ga", "J:to", "J:u">>,
       <<"t", "h", "a", "n", "k">>,
       <<"J:kan", "J:sha">> >>

goodbye ==
    << <<"J:sa", "J:yo", "J:u", "J:na", "J:ra">>,
       <<"J:ma", "J:ta", "J:ne">>,
       <<"b", "y", "e">>,
       <<"g", "o", "o", "d", "b", "y", "e">> >>

\* the three canned replies (each fixed text is one symbol)
GreetingReply == <<"J:konnichiwa! nanika otetsudai dekiru koto wa arimasuka?">>
ThanksReply == <<"J:douitashimashite!">>
GoodbyeReply == <<"J:mata nanika arimashitara okoe kake kudasai!">>

\* _check_simple_greeting returns None when nothing matches; None and ""
\* are both false in `if simple_greetings:`
NoReply == <<>>

AnyIn(phrases, text) == \E i \in 1..Len(phrases) : Contains(text, phrases[i])

NeverGreets(question) == NoReply

CheckFarewellsFirst(question) ==
    LET question_lower == Strip(Lower(question))
    IN  IF AnyIn(goodbye, question_lower) THEN GoodbyeReply
        ELSE IF AnyIn(thanks, question_lower) THEN ThanksReply
        ELSE IF AnyIn(greetings, question_lower) THEN GreetingReply
        ELSE NoReply

_check_simple_greeting(question) ==
    LET question_lower == Strip(Lower(question))
    IN  IF AnyIn(greetings, question_lower) THEN GreetingReply
        ELSE IF AnyIn(thanks, question_lower) THEN ThanksReply
        ELSE IF AnyIn(goodbye, question_lower) THEN GoodbyeReply
        ELSE NoReply

\* "no relevant document information was found"
Sentinel == <<"J:kanren suru bunsho jouhou ga mitsukarimasen deshita.">>

Digit(i) == <<"0", "1", "2", "3", "4", "5", "6", "7", "8", "9">>[i + 1]

\* f"文書{i}"
Placeholder(i) == <<"J:bun", "J:sho", Digit(i)>>

\* doc.get("metadata", {}).get("title", f"文書{i}")
TitleOf(doc, i) ==
    IF "title" \in DOMAIN doc.metadata THEN doc.metadata.title
    ELSE Placeholder(i)

\* f"【{title}】\n{content}"
ContextPart(title, content) ==
    <<"J:[">> \o title \o <<"J:]", "\n">> \o content

RECURSIVE JoinPartsOneNewline(_)
JoinPartsOneNewline(parts) ==
    IF Len(parts) = 1 THEN Head(parts)
    ELSE Head(parts) \o <<"\n">> \o JoinPartsOneNewline(Tail(parts))

RECURSIVE JoinParts(_)
JoinParts(parts) ==
    IF Len(parts) = 1 THEN Head(parts)
    ELSE Head(parts) \o <<"\n", "\n">> \o JoinParts(Tail(parts))

RECURSIVE ContextPartsNumberedAmongKept(_, _)
ContextPartsNumberedAmongKept(documents, i) ==
    IF i > Len(documents) THEN <<>>
    ELSE (IF documents[i].document # <<>>
          THEN <<ContextPart(
                     TitleOf(documents[i],
                             Cardinality({k \in 1..i :
                                             documents[k].document # <<>>})),
                     documents[i].document)>>
          ELSE <<>>) \o ContextPartsNumberedAmongKept(documents, i + 1)

RECURSIVE ContextParts(_, _)
ContextParts(documents, i) ==
    IF i > Len(documents) THEN <<>>
    ELSE (IF documents[i].document # <<>>
          THEN <<ContextPart(TitleOf(documents[i], i), documents[i].document)>>
          ELSE <<>>) \o ContextParts(documents, i + 1)

_build_context(documents) ==
    IF documents = <<>> THEN Sentinel
    ELSE LET context_parts == ContextParts(documents, 1)
         IN  IF context_parts # <<>> THEN JoinParts(context_parts)
             ELSE Sentinel

(***************************************************************************)
(* answer_question.  The collaborator calls it makes are logged in order.  *)
(***************************************************************************)
\* line 97: n_results=3
ChatNResults == 3

\* line 127: max_tokens=256
MaxTokens == 256

\* the system prompt (lines 41-55), one symbol
SystemPrompt == <<"J:system prompt">>

\* the user turn (lines 110-117); the indentation of the literal is left out
UserHead == <<"\n", "J:sankou jouhou:", "\n">>
UserMid == <<"\n", "\n", "J:shitsumon: ">>
UserTail == <<"\n", "\n", "J:chuui: hitsuyou saishougen no jouhou nomi de kotaete kudasai.", "\n">>

UserContent(context, question) ==
    UserHead \o context \o UserMid \o question \o UserTail

Messages(context, question) ==
    << [role |-> "system", content |-> SystemPrompt],
       [role |-> "user", content |-> UserContent(context, question)] >>

SearchCall(query, n_results) ==
    [fn |-> "search_similar_documents", query |-> query,
     n_results |-> n_results]

GenerateCall(messages) ==
    [fn |-> "chat.completions.create", messages |-> messages,
     model |-> "llama3-8b-8192", temperature |-> "0.1",
     max_tokens |-> MaxTokens]

\* what the completion API does with one request: a text, or a failure
EngineOutcomes ==
    {[ok |-> TRUE, text |-> <<" ", "o", "k", "\n">>],
     [ok |-> TRUE, text |-> <<"n", "o">>],
     [ok |-> FALSE, text |-> <<>>]}

Answered(res, calls) == [res |-> res, calls |-> calls]

RetrieveStripped(s, question, r, searchFault, engine) ==
    LET found == search_similar_documents(s, question, ChatNResults, r,
                                          searchFault).res
        messages == Messages(_build_context(found.value), question)
    IN  IF found.outcome = "raise"
        THEN Answered(Raised(Wrap("answer generation error", found.exc)),
                      <<SearchCall(question, ChatNResults)>>)
        ELSE IF ~engine.ok
        THEN Answered(Raised(Wrap("answer generation error", Fault("groq"))),
                      <<SearchCall(question, ChatNResults),
                        GenerateCall(messages)>>)
        ELSE Answered(Returned(Strip(engine.text)),
                      <<SearchCall(question, ChatNResults),
                        GenerateCall(messages)>>)

\* lines 93-138: retrieval, context, prompt, generation, and the wrapping
\* of whatever they raise
Retrieve(s, question, r, searchFault, engine) ==
    LET found == search_similar_documents(s, question, ChatNResults, r,
                                          searchFault).res
        context == _build_context(found.value)
        messages == Messages(context, question)
    IN  IF found.outcome = "raise"
        THEN Answered(Raised(Wrap("answer generation error", found.exc)),
                      <<SearchCall(question, ChatNResults)>>)
        ELSE IF ~engine.ok
        THEN Answered(Raised(Wrap("answer generation error", Fault("groq"))),
                      <<SearchCall(question, ChatNResults),
                        GenerateCall(messages)>>)
        ELSE Answered(Returned(engine.text),
                      <<SearchCall(question, ChatNResults),
                        GenerateCall(messages)>>)

AnswerUnvalidated(s, question, r, searchFault, engine) ==
    IF _check_simple_greeting(question) # NoReply
    THEN Answered(Returned(_check_simple_greeting(question)), <<>>)
    ELSE Retrieve(s, question, r, searchFault, engine)

\* lines 79-81: the check of the blank question, before the try block
Validate(question) ==
    IF Strip(question) = <<>>
    THEN <<Layer("ValueError", "question is empty")>>
    ELSE NoExc

AnswerValidatedInside(s, question, r, searchFault, engine) ==
    IF Validate(question) # NoExc
    THEN Answered(Raised(Wrap("answer generation error", Validate(question))),
                  <<>>)
    ELSE IF _check_simple_greeting(question) # NoReply
    THEN Answered(Returned(_check_simple_greeting(question)), <<>>)
    ELSE Retrieve(s, question, r, searchFault, engine)

answer_question(s, question, r, searchFault, engine) ==
    IF Validate(question) # NoExc
    THEN Answered(Raised(Validate(question)), <<>>)
    ELSE IF _check_simple_greeting(question) # NoReply
    THEN Answered(Returned(_check_simple_greeting(question)), <<>>)
    ELSE Retrieve(s, question, r, searchFault, engine)

StoreAfterIndexingQuestion(s, question, r, searchFault, engine) ==
    IF Len(answer_question(s, question, r, searchFault, engine).calls) >= 1
    THEN CollectionUpsert(s, "x", Encode(question), question,
                          DocMetadata(<<"A">>, question, 1))
    ELSE s

\* the collection after answer_question: the search is its only call that
\* touches the collection
StoreAfterAnswer(s, question, r, searchFault, engine) ==
    IF Len(answer_question(s, question, r, searchFault, engine).calls) >= 1
    THEN search_similar_documents(s, question, ChatNResults, r,
                                  searchFault).store
    ELSE s

(***************************************************************************)
(* Routers: the HTTP status each endpoint answers with.                    *)
(***************************************************************************)
\* routers/chat.py receive_chat
receive_chat_status(res) ==
    IF res.outcome = "return" THEN 200
    ELSE IF Head(res.exc).type = "ValueError" THEN 400
    ELSE 500

\* routers/documents.py: every endpoint answers 500 on an exception, except
\* get_document, which answers 404
documents_status(op, res) ==
    IF res.outcome = "return" THEN 200
    ELSE IF op = "get_document" THEN 404
    ELSE 500

(***************************************************************************)
(* Inputs.                                                                 *)
(***************************************************************************)
QPieces ==
    {<<"h", "i">>, <<"H", "I">>, <<"b", "y", "e">>, <<"J:kan", "J:sha">>,
     <<" ">>, <<"t">>}

Questions ==
    {Concat(ps) : ps \in UNION {[1..n -> QPieces] : n \in 0..MaxQParts}}

Queries == {<<"t">>, <<"t", "1">>}

(***************************************************************************)
(* State.                                                                  *)
(*   store    the persistent collection "documents"                        *)
(*   last     the request being answered: its arguments, the collection    *)
(*            before it, what the service returned or raised, the          *)
(*            collaborator calls it made and the HTTP status ("idle" once  *)
(*            the response is delivered)                                   *)
(*   written  for each stored id, the arguments of the add_document whose  *)
(*            upsert was applied last (history)                            *)
(*   procs    for each server process, the request it is serving, the      *)
(*            statement it has reached and its local variables             *)
(*   turns    the question answered last, if any (history)                 *)
(***************************************************************************)
Idle ==
    [op |-> "idle", args |-> <<>>, before |-> <<>>, outcome |-> "return",
     value |-> <<>>, exc |-> NoExc, calls |-> <<>>, status |-> 200]

Request(op, args, o, calls, status) ==
    [op |-> op, args |-> args, before |-> store, outcome |-> o.res.outcome,
     value |-> o.res.value, exc |-> o.res.exc, calls |-> calls,
     status |-> status]

\* the requests served one step at a time
Procs == {"p", "q"}

\* a server process with no request in hand
IdleProc == [kind |-> "idle", pc |-> "idle", args |-> <<>>, loc |-> <<>>]

Init ==
    /\ store = <<>>
    /\ last = Idle
    /\ written = <<>>
    /\ procs = [p \in Procs |-> IdleProc]
    /\ turns = <<>>

\* the ids whose record the request replaced or created / removed
Keep(w, ids) == [x \in (DOMAIN w) \cap ids |-> w[x]]

AddDocument ==
    /\ last.op = "idle"
    /\ UNCHANGED <<procs, turns>>
    /\ \E id \in Ids, title \in Titles, text \in Texts, now \in Times,
          fault \in AddFaults :
        LET o == add_document(store, id, title, text, now, fault)
            args == [id |-> id, title |-> title, text |-> text, now |-> now,
                     fault |-> fault]
        IN  /\ store' = o.store
            /\ last' = Request("add_document", args, o, <<>>,
                               documents_status("add_document", o.res))
            /\ written' =
                 IF fault \in {"none", "readback"}
                 THEN [x \in (DOMAIN written) \cup {id} |->
                          IF x = id
                          THEN [title |-> title, text |-> text, now |-> now]
                          ELSE written[x]]
                 ELSE written

SearchDocuments ==
    /\ last.op = "idle"
    /\ UNCHANGED <<procs, turns>>
    /\ \E query \in Queries, n_results \in KValues, fault \in SearchFaults :
        \E r \in Rankings(store, Encode(query), n_results) :
            LET o == search_similar_documents(store, query, n_results, r,
                                              fault)
            IN  /\ store' = o.store
                /\ last' = Request("search_similar_documents",
                                   [query |-> query, n_results |-> n_results,
                                    ranking |-> r, fault |-> fault],
                                   o, <<>>,
                                   documents_status("search_similar_documents",
                                                    o.res))
                /\ UNCHANGED written

GetDocument ==
    /\ last.op = "idle"
    /\ UNCHANGED <<procs, turns>>
    /\ \E document_id \in Ids, fault \in GetFaults :
        LET o == get_document(store, document_id, fault)
        IN  /\ store' = o.store
            /\ last' = Request("get_document",
                               [document_id |-> document_id, fault |-> fault],
                               o, <<>>, documents_status("get_document", o.res))
            /\ UNCHANGED written

DeleteDocument ==
    /\ last.op = "idle"
    /\ UNCHANGED <<procs, turns>>
    /\ \E document_id \in Ids, fault \in DeleteFaults :
        LET o == delete_document(store, document_id, fault)
        IN  /\ store' = o.store
            /\ last' = Request("delete_document",
                               [document_id |-> document_id, fault |-> fault],
                               o, <<>>,
                               documents_status("delete_document", o.res))
            /\ written' = Keep(written, DOMAIN o.store)

DeleteAllDocuments ==
    /\ last.op = "idle"
    /\ UNCHANGED <<procs, turns>>
    /\ \E fault \in DeleteAllFaults :
        LET o == delete_all_documents(store, fault)
        IN  /\ store' = o.store
            /\ last' = Request("delete_all_documents", [fault |-> fault],
                               o, <<>>,
                               documents_status("delete_all_documents", o.res))
            /\ written' = Keep(written, DOMAIN o.store)

\* An input that no collaborator call consumes is held at one value: a
\* request that never reaches the search has one behaviour for all faults
\* and engine outcomes, one that fails in the search has one for all engine
\* outcomes.
NoEngine == [ok |-> FALSE, text |-> <<>>]

FaultsConsumed(question, r) ==
    IF answer_question(store, question, r, "none", NoEngine).calls = <<>>
    THEN {"none"}
    ELSE SearchFaults

EnginesConsumed(question, r, searchFault) ==
    IF Len(answer_question(store, question, r, searchFault, NoEngine).calls) < 2
    THEN {NoEngine}
    ELSE EngineOutcomes

ReceiveChat ==
    /\ last.op = "idle"
    /\ UNCHANGED <<procs, turns>>
    /\ \E question \in Questions :
        \E r \in Rankings(store, Encode(question), ChatNResults) :
        \E searchFault \in FaultsConsumed(question, r) :
        \E engine \in EnginesConsumed(question, r, searchFault) :
            LET a == answer_question(store, question, r, searchFault, engine)
            IN  /\ store' = StoreAfterAnswer(store, question, r, searchFault,
                                             engine)
                /\ last' = Request("answer_question",
                                   [question |-> question, ranking |-> r,
                                    searchFault |-> searchFault,
                                    engine |-> engine],
                                   a, a.calls, receive_chat_status(a.res))
                /\ UNCHANGED written

GetAllDocuments ==
    /\ last.op = "idle"
    /\ UNCHANGED <<procs, turns>>
    /\ \E order \in Orders(store), fault \in GetAllFaults :
        LET o == get_all_documents(store, order, fault)
        IN  /\ store' = o.store
            /\ last' = Request("get_all_documents",
                               [order |-> order, fault |-> fault],
                               o, <<>>,
                               documents_status("get_all_documents", o.res))
            /\ UNCHANGED written

GetCollectionInfo ==
    /\ last.op = "idle"
    /\ UNCHANGED <<procs, turns>>
    /\ \E fault \in InfoFaults :
        LET o == get_collection_info(store, fault)
        IN  /\ store' = o.store
            /\ last' = Request("get_collection_info", [fault |-> fault],
                               o, <<>>,
                               documents_status("get_collection_info", o.res))
            /\ UNCHANGED written

\* a DocumentService is constructed: for the next request (the routers'
\* dependency, ChatService.__init__) or after the process is started again
Construct ==
    /\ last.op = "idle"
    /\ UNCHANGED <<procs, turns>>
    /\ store' = get_or_create_collection(store)
    /\ last' = Request("DocumentService", <<>>,
                       Outcome(store, Returned(<<>>)), <<>>, 200)
    /\ UNCHANGED written

\* the response is delivered; the next request can be made
Respond ==
    /\ last.op # "idle"
    /\ UNCHANGED <<procs, turns>>
    /\ last' = Idle
    /\ UNCHANGED <<store, written>>

Next ==
    \/ AddDocument
    \/ SearchDocuments
    \/ GetDocument
    \/ DeleteDocument
    \/ DeleteAllDocuments
    \/ ReceiveChat
    \/ GetAllDocuments
    \/ GetCollectionInfo
    \/ Construct
    \/ Respond

Spec == Init /\ [][Next]_vars

(***************************************************************************)
(* Requests served by several server processes on the one persistent       *)
(* collection.  A step is one statement of the service method; a call of   *)
(* the store (get, upsert, delete, query) is one atomic step.              *)
(***************************************************************************)
\* title and text of the documents added in the stepwise model
ConcDocs ==
    {[title |-> <<"A">>, text |-> <<"t", "1">>],
     [title |-> <<"B">>, text |-> <<>>]}

Running(q) == procs[q].pc \notin {"idle", "return", "raise", "Done", "Failed"}

\* whether another request is under way when p's starts (history)
Overlapping(p) == \E q \in Procs \ {p} : Running(q)

Goto(p, pc, loc) == [procs EXCEPT ![p].pc = pc, ![p].loc = loc]

StartAdd(p) ==
    /\ procs[p].pc = "idle"
    /\ \E id \in Ids, d \in ConcDocs :
          procs' = [procs EXCEPT ![p] =
                       [kind |-> "add_document", pc |-> "get",
                        args |-> [id |-> id, title |-> d.title,
                                  text |-> d.text],
                        loc |-> [existing |-> FALSE, now |-> 0]]]
    /\ UNCHANGED <<store, last, written, turns>>

\* line 68: existing = self.collection.get(ids=[id])
AddGet(p) ==
    /\ procs[p].kind = "add_document" /\ procs[p].pc = "get"
    /\ procs' = Goto(p, "encode",
                     [procs[p].loc EXCEPT !.existing =
                         DOMAIN CollectionGet(store, {procs[p].args.id})
                            # {}])
    /\ UNCHANGED <<store, last, written, turns>>

\* lines 76-84: the embedding and the metadata, with the time of the clock
AddEncode(p) ==
    /\ procs[p].kind = "add_document" /\ procs[p].pc = "encode"
    /\ \E now \in Times :
          procs' = Goto(p, "upsert", [procs[p].loc EXCEPT !.now = now])
    /\ UNCHANGED <<store, last, written, turns>>

UpsertedUnlessSeenNew(s, args, loc) ==
    IF ~loc.existing /\ args.id \in DOMAIN s
    THEN s
    ELSE CollectionUpsert(s, args.id, Encode(args.text), args.text,
                          DocMetadata(args.title, args.text, loc.now))

\* lines 89-94: the upsert of the call's vector, text and metadata, whatever
\* the check of line 68 found
Upserted(s, args, loc) ==
    CollectionUpsert(s, args.id, Encode(args.text), args.text,
                     DocMetadata(args.title, args.text, loc.now))

AddUpsert(p) ==
    /\ procs[p].kind = "add_document" /\ procs[p].pc = "upsert"
    /\ store' = Upserted(store, procs[p].args, procs[p].loc)
    /\ written' = [x \in (DOMAIN written) \cup {procs[p].args.id} |->
                      IF x = procs[p].args.id
                      THEN [title |-> procs[p].args.title,
                            text |-> procs[p].args.text,
                            now |-> procs[p].loc.now]
                      ELSE written[x]]
    /\ procs' = Goto(p, "readback", procs[p].loc)
    /\ UNCHANGED <<last, turns>>

\* line 99: saved_data = self.collection.get(ids=[id]), not used further;
\* line 102: return of the id and the embedding
AddReadback(p) ==
    /\ procs[p].kind = "add_document" /\ procs[p].pc = "readback"
    /\ procs' = Goto(p, "return", <<>>)
    /\ UNCHANGED <<store, last, written, turns>>

\* lines 104-106: a call of the store or of the encoder fails
AddFail(p) ==
    /\ procs[p].kind = "add_document"
    /\ procs[p].pc \in {"get", "encode", "upsert", "readback"}
    /\ procs' = Goto(p, "raise", <<>>)
    /\ UNCHANGED <<store, last, written, turns>>

StartDelete(p) ==
    /\ procs[p].pc = "idle"
    /\ \E id \in Ids :
          procs' = [procs EXCEPT ![p] =
                       [kind |-> "delete_document", pc |-> "delete",
                        args |-> [id |-> id],
                        loc |-> [overlap |-> Overlapping(p)]]]
    /\ UNCHANGED <<store, last, written, turns>>

\* line 225: self.collection.delete(ids=[document_id]); line 229: return True
DeleteStep(p) ==
    /\ procs[p].kind = "delete_document" /\ procs[p].pc = "delete"
    /\ store' = CollectionDelete(store, {procs[p].args.id})
    /\ written' = Keep(written, DOMAIN store')
    /\ procs' = Goto(p, "return", procs[p].loc)
    /\ UNCHANGED <<last, turns>>

\* lines 231-235: the delete fails
DeleteFail(p) ==
    /\ procs[p].kind = "delete_document" /\ procs[p].pc = "delete"
    /\ procs' = Goto(p, "raise", procs[p].loc)
    /\ UNCHANGED <<store, last, written, turns>>

\* the response is delivered; the process takes the next request
Finish(p) ==
    /\ procs[p].pc \in {"return", "raise", "Done", "Failed"}
    /\ procs' = [procs EXCEPT ![p] = IdleProc]
    /\ UNCHANGED <<store, last, written, turns>>

ConcNext ==
    \E p \in Procs :
        \/ StartAdd(p)
        \/ AddGet(p)
        \/ AddEncode(p)
        \/ AddUpsert(p)
        \/ AddReadback(p)
        \/ AddFail(p)
        \/ StartDelete(p)
        \/ DeleteStep(p)
        \/ DeleteFail(p)
        \/ Finish(p)

ConcSpec == Init /\ [][ConcNext]_vars

(***************************************************************************)
(* answer_question, one stage at a time.                                   *)
(***************************************************************************)
ConcQuestions == {<<" ">>, <<"h", "i">>, <<"t">>}

\* what the completion API answers to one request
Completion ==
    [ok |-> TRUE, kind |-> "completion", text |-> <<" ", "o", "k", "\n">>]
\* a network or rate-limit failure
Transient == [ok |-> FALSE, kind |-> "transient", text |-> <<>>]
\* a failure that a repeated request meets again
Permanent == [ok |-> FALSE, kind |-> "permanent", text |-> <<>>]

\* what the completion API answers to the requests of one invocation, in
\* the order they are made
EnginePlans == {<<Completion>>, <<Transient, Completion>>, <<Permanent>>}

NextStageSkipsContext(stage, question, ok) ==
    CASE stage = "ValidatingInput" ->
           IF Validate(question) # NoExc THEN "Failed"
           ELSE IF _check_simple_greeting(question) # NoReply
           THEN "ShortCircuitReply"
           ELSE "Retrieving"
      [] stage = "ShortCircuitReply" -> "Done"
      [] stage = "Retrieving" -> IF ok THEN "Generating" ELSE "Failed"
      [] stage = "BuildingContext" -> IF ok THEN "Generating" ELSE "Failed"
      [] stage = "Generating" -> IF ok THEN "Done" ELSE "Failed"

\* where answer_question goes from a stage; ok tells whether the stage's
\* call returned (the try block of lines 93-138 sends every failure to
\* the except clause)
NextStage(stage, question, ok) ==
    CASE stage = "ValidatingInput" ->
           IF Validate(question) # NoExc THEN "Failed"
           ELSE IF _check_simple_greeting(question) # NoReply
           THEN "ShortCircuitReply"
           ELSE "Retrieving"
      [] stage = "ShortCircuitReply" -> "Done"
      [] stage = "Retrieving" -> IF ok THEN "BuildingContext" ELSE "Failed"
      [] stage = "BuildingContext" -> IF ok THEN "Generating" ELSE "Failed"
      [] stage = "Generating" -> IF ok THEN "Done" ELSE "Failed"

ChatMessagesWithTurns(previous, context, question) ==
    Messages(context, Concat(previous) \o question)

\* lines 106-119: the messages are built from the system prompt, the
\* context and the question; nothing of an earlier invocation enters
ChatMessages(previous, context, question) == Messages(context, question)

NoLocals ==
    [trace |-> <<>>, seen |-> <<>>, ranking |-> <<>>, documents |-> <<>>,
     context |-> <<>>, previous |-> <<>>, messages |-> <<>>, plan |-> <<>>,
     res |-> Returned(<<>>)]

\* p moves to the stage that follows, with its locals
Advance(p, ok, loc) ==
    LET next == NextStage(procs[p].pc, procs[p].args.question, ok)
    IN  Goto(p, next, [loc EXCEPT !.trace = Append(procs[p].loc.trace, next)])

StartChat(p) ==
    /\ procs[p].pc = "idle"
    /\ \E question \in ConcQuestions :
          procs' = [procs EXCEPT ![p] =
                       [kind |-> "answer_question", pc |-> "ValidatingInput",
                        args |-> [question |-> question],
                        loc |-> [NoLocals EXCEPT
                                    !.trace = <<"ValidatingInput">>]]]
    /\ UNCHANGED <<store, last, written, turns>>

\* lines 79-88: the blank check and the greeting check
ChatValidate(p) ==
    /\ procs[p].kind = "answer_question" /\ procs[p].pc = "ValidatingInput"
    /\ procs' = Advance(p, TRUE,
                        [procs[p].loc EXCEPT !.res =
                            IF Validate(procs[p].args.question) # NoExc
                            THEN Raised(Validate(procs[p].args.question))
                            ELSE @])
    /\ UNCHANGED <<store, last, written, turns>>

\* lines 89-91: return greeting_response
ChatShortCircuit(p) ==
    /\ procs[p].kind = "answer_question" /\ procs[p].pc = "ShortCircuitReply"
    /\ procs' = Advance(p, TRUE,
                        [procs[p].loc EXCEPT !.res =
                            Returned(_check_simple_greeting(
                                         procs[p].args.question))])
    /\ turns' = <<procs[p].args.question>>
    /\ UNCHANGED <<store, last, written>>

\* lines 96-98: search_similar_documents(question, n_results=3)
ChatRetrieve(p) ==
    /\ procs[p].kind = "answer_question" /\ procs[p].pc = "Retrieving"
    /\ \E r \in Rankings(store, Encode(procs[p].args.question), ChatNResults),
          fault \in SearchFaults :
          LET found == search_similar_documents(
                           store, procs[p].args.question, ChatNResults, r,
                           fault).res
          IN  procs' =
                IF found.outcome = "return"
                THEN Advance(p, TRUE,
                             [procs[p].loc EXCEPT !.seen = store,
                                                  !.ranking = r,
                                                  !.documents = found.value])
                ELSE Advance(p, FALSE,
                             [procs[p].loc EXCEPT !.res =
                                 Raised(Wrap("answer generation error",
                                             found.exc))])
    /\ UNCHANGED <<store, last, written, turns>>

\* line 102: context = self._build_context(similar_docs)
ChatBuildContext(p) ==
    /\ procs[p].kind = "answer_question" /\ procs[p].pc = "BuildingContext"
    /\ procs' = Advance(p, TRUE,
                        [procs[p].loc EXCEPT !.context =
                            _build_context(procs[p].loc.documents)])
    /\ UNCHANGED <<store, last, written, turns>>

\* lines 106-134: the messages, the one call of chat.completions.create,
\* and the answer taken from its response; lines 136-138 when it raises
ChatGenerate(p) ==
    /\ procs[p].kind = "answer_question" /\ procs[p].pc = "Generating"
    /\ \E plan \in EnginePlans :
          LET messages == ChatMessages(turns, procs[p].loc.context,
                                       procs[p].args.question)
              sent == [procs[p].loc EXCEPT !.previous = turns,
                                           !.messages = messages,
                                           !.plan = plan]
          IN  IF Head(plan).ok
              THEN /\ procs' = Advance(p, TRUE,
                                  [sent EXCEPT !.res =
                                      Returned(Head(plan).text)])
                   /\ turns' = <<procs[p].args.question>>
              ELSE /\ procs' = Advance(p, FALSE,
                                  [NoLocals EXCEPT
                                      !.plan = plan,
                                      !.res =
                                        Raised(Wrap("answer generation error",
                                                    Fault("groq")))])
                   /\ turns' = turns
    /\ UNCHANGED <<store, last, written>>

\* the documents added while questions are answered
ChatDocs ==
    {[id |-> "x", title |-> <<"A">>, text |-> <<"t", "1">>],
     [id |-> "y", title |-> <<"B">>, text |-> <<>>]}

\* add_document served meanwhile, from its first statement to its last
ChatAdd ==
    /\ \E d \in ChatDocs :
          /\ store' = add_document(store, d.id, d.title, d.text, 1,
                                   "none").store
          /\ written' = [x \in (DOMAIN written) \cup {d.id} |->
                            IF x = d.id
                            THEN [title |-> d.title, text |-> d.text,
                                  now |-> 1]
                            ELSE written[x]]
    /\ UNCHANGED <<last, procs, turns>>

\* the steps answer_question takes by itself once it is called
ChatStep(p) ==
    \/ ChatValidate(p)
    \/ ChatShortCircuit(p)
    \/ ChatRetrieve(p)
    \/ ChatBuildContext(p)
    \/ ChatGenerate(p)

ChatNext ==
    \/ ChatAdd
    \/ \E p \in Procs :
          \/ StartChat(p)
          \/ ChatStep(p)
          \/ Finish(p)

\* every call of a collaborator returns or raises: a stage that can be
\* left is left
ChatSpec ==
    /\ Init
    /\ [][ChatNext]_vars
    /\ \A p \in Procs : WF_vars(ChatStep(p))

(***************************************************************************)
(* delete_all_documents, one statement at a time, while other requests     *)
(* write to the collection (ChatAdd, and the delete of another             *)
(* delete_all_documents).                                                  *)
(***************************************************************************)
AllLocals ==
    [count_before |-> 0, all_ids |-> {}, called |-> FALSE, removed |-> 0,
     count_after |-> 0, quiet |-> TRUE, expect |-> <<>>,
     res |-> Returned(<<>>)]

\* line 254: if all_ids:
AfterListing(all_ids) == IF all_ids # {} THEN "delete" ELSE "count_after"

DeletedCountAfterMinusBefore(count_before, count_after) ==
    count_after - count_before

\* line 260: deleted_count = count_before - count_after
DeletedCount(count_before, count_after) == count_before - count_after

\* whether the collection is as p's previous statement left it (history)
Undisturbed(p) == procs[p].loc.quiet /\ store = procs[p].loc.expect

StartDeleteAll(p) ==
    /\ procs[p].pc = "idle"
    /\ procs' = [procs EXCEPT ![p] =
                     [kind |-> "delete_all_documents", pc |-> "count_before",
                      args |-> <<>>, loc |-> AllLocals]]
    /\ UNCHANGED <<store, last, written, turns>>

\* line 247: count_before = self.collection.count()
AllCountBefore(p) ==
    /\ procs[p].kind = "delete_all_documents"
    /\ procs[p].pc = "count_before"
    /\ procs' = Goto(p, "get",
                     [procs[p].loc EXCEPT
                         !.count_before = CollectionCount(store),
                         !.expect = store])
    /\ UNCHANGED <<store, last, written, turns>>

\* lines 251-254: all_ids = self.collection.get()["ids"]
AllGet(p) ==
    /\ procs[p].kind = "delete_all_documents" /\ procs[p].pc = "get"
    /\ LET all_ids == DOMAIN CollectionGet(store, DOMAIN store)
       IN  procs' = Goto(p, AfterListing(all_ids),
                         [procs[p].loc EXCEPT !.all_ids = all_ids,
                                              !.quiet = Undisturbed(p),
                                              !.expect = store])
    /\ UNCHANGED <<store, last, written, turns>>

\* line 256: self.collection.delete(ids=all_ids)
AllDelete(p) ==
    /\ procs[p].kind = "delete_all_documents" /\ procs[p].pc = "delete"
    /\ store' = DeleteListed(store, procs[p].loc.all_ids)
    /\ written' = Keep(written, DOMAIN store')
    /\ procs' = Goto(p, "count_after",
                     [procs[p].loc EXCEPT
                         !.called = TRUE,
                         !.removed = CollectionCount(store)
                                        - CollectionCount(store'),
                         !.quiet = Undisturbed(p),
                         !.expect = store'])
    /\ UNCHANGED <<last, turns>>

\* lines 259-264: count_after, deleted_count and the result
AllCountAfter(p) ==
    /\ procs[p].kind = "delete_all_documents"
    /\ procs[p].pc = "count_after"
    /\ procs' = Goto(p, "return",
                     [procs[p].loc EXCEPT
                         !.count_after = CollectionCount(store),
                         !.quiet = Undisturbed(p),
                         !.res = Returned(
                             [success |-> TRUE,
                              deleted_count |->
                                  DeletedCount(procs[p].loc.count_before,
                                               CollectionCount(store))])])
    /\ UNCHANGED <<store, last, written, turns>>

\* lines 266-268: a call of the store fails
AllFail(p) ==
    /\ procs[p].kind = "delete_all_documents"
    /\ procs[p].pc \in {"count_before", "get", "delete", "count_after"}
    /\ procs' = Goto(p, "raise",
                     [AllLocals EXCEPT !.res =
                         Raised(Wrap("delete_all_documents failed",
                                     Fault("store")))])
    /\ UNCHANGED <<store, last, written, turns>>

DeleteAllNext ==
    \/ ChatAdd
    \/ \E p \in Procs :
          \/ StartDeleteAll(p)
          \/ AllCountBefore(p)
          \/ AllGet(p)
          \/ AllDelete(p)
          \/ AllCountAfter(p)
          \/ AllFail(p)
          \/ Finish(p)

DeleteAllSpec == Init /\ [][DeleteAllNext]_vars

(***************************************************************************)
(* _build_context on its own, for every list of documents a search with    *)
(* n_results=3 can hand it: a document has a text or an empty one, and its  *)
(* metadata has a title or none.                                           *)
(***************************************************************************)
ContextDocs ==
    {[id |-> "x", document |-> text, metadata |-> metadata, distance |-> 0] :
        text \in {<<>>, <<"t", "1">>},
        metadata \in {[title |-> <<"A">>, text_length |-> 0],
                      [title |-> <<"B">>, text_length |-> 0],
                      [text_length |-> 0]}}

ContextInputs ==
    UNION {[1..n -> ContextDocs] : n \in 0..ChatNResults}

BuildContext ==
    /\ last.op = "idle"
    /\ UNCHANGED <<procs, turns>>
    /\ \E documents \in ContextInputs :
          last' = Request("_build_context", [documents |-> documents],
                          Outcome(store,
                                  Returned(_build_context(documents))),
                          <<>>, 200)
    /\ UNCHANGED <<store, written>>

ContextNext ==
    \/ BuildContext
    \/ Respond

ContextSpec == Init /\ [][ContextNext]_vars

(***************************************************************************)
(* Properties.                                                             *)
(***************************************************************************)
\* the record an add_document with these arguments is to leave stored
RecordOf(w) ==
    [embedding |-> Encode(w.text), document |-> w.text,
     metadata |-> [title |-> w.title, created_at |-> w.now,
                   text_length |-> Len(w.text)]]

\* what get_document is to return for id x whose last write was w
DocumentOf(x, w) ==
    [id |-> x, title |-> w.title, text |-> w.text,
     metadata |-> [title |-> w.title, created_at |-> w.now,
                   text_length |-> Len(w.text)],
     embedding |-> Encode(w.text)]

UpsertApplied ==
    /\ last.op = "add_document"
    /\ last.args.fault \in {"none", "readback"}

\* C1: after a write of id x, a get of x returns the title, text, metadata
\* and embedding of that write, whatever an earlier write of x stored; and
\* every stored record is, field for field, the record of the last write
\* applied to its id (no state mixes two writes).
UpsertOverwrite ==
    /\ DOMAIN store = DOMAIN written
    /\ \A x \in DOMAIN store : store[x] = RecordOf(written[x])
    /\ UpsertApplied =>
          get_document(store, last.args.id, "none").res
              = Returned(DocumentOf(last.args.id, last.args))
    /\ (last.op = "get_document" /\ last.outcome = "return") =>
          last.value = DocumentOf(last.args.document_id,
                                  written[last.args.document_id])

\* a second write of x that changed title, text, embedding and created_at,
\* after which x reads back as the second write
UpsertOverwriteWitness ==
    /\ UpsertApplied
    /\ last.args.id \in DOMAIN last.before
    /\ LET old == last.before[last.args.id]
       IN  /\ old.metadata.title # last.args.title
           /\ old.document # last.args.text
           /\ old.embedding # Encode(last.args.text)
           /\ old.metadata.created_at # last.args.now
    /\ get_document(store, last.args.id, "none").res.value.title
          = last.args.title

\* a question with no character other than whitespace
IsBlank(question) == \A i \in 1..Len(question) : question[i] \in Whitespace

Asked == last.op = "answer_question"

\* C2: a blank question is answered with the ValueError alone, and neither
\* the search nor the completion API is called.
BlankQuestionRejected ==
    (Asked /\ IsBlank(last.args.question)) =>
        /\ last.outcome = "raise"
        /\ last.exc = <<Layer("ValueError", "question is empty")>>
        /\ last.calls = <<>>
        /\ last.status = 400

BlankQuestionWitness ==
    /\ Asked
    /\ last.args.question = <<" ", " ">>
    /\ last.outcome = "raise"
    /\ last.calls = <<>>

\* the phrase lists matched against the lower-cased question
Matches(phrases, question) ==
    \E i \in 1..Len(phrases) : Contains(Lower(question), phrases[i])

\* C3: a non-blank question containing a greeting, thanks or farewell phrase
\* is answered with the canned reply of a category it matches, with no call
\* to the search and none to the completion API, whatever is stored.
ShortCircuitNoCalls ==
    (/\ Asked
     /\ ~IsBlank(last.args.question)
     /\ \/ Matches(greetings, last.args.question)
        \/ Matches(thanks, last.args.question)
        \/ Matches(goodbye, last.args.question)) =>
        /\ last.outcome = "return"
        /\ last.calls = <<>>
        /\ \/ last.value = GreetingReply
                 /\ Matches(greetings, last.args.question)
           \/ last.value = ThanksReply /\ Matches(thanks, last.args.question)
           \/ last.value = GoodbyeReply
                 /\ Matches(goodbye, last.args.question)

\* a farewell short-circuited while two documents are stored
ShortCircuitWitness ==
    /\ Asked
    /\ last.args.question = <<"b", "y", "e", " ">>
    /\ last.value = GoodbyeReply
    /\ last.calls = <<>>
    /\ CollectionCount(store) = 2

\* the failure injected into the request, as the collaborator raised it
InjectedFault ==
    CASE last.args.searchFault = "encode" -> Fault("encoder")
      [] last.args.searchFault = "query" -> Fault("store")
      [] OTHER -> Fault("groq")

\* C4: a failure of the search or of the completion API is raised as the one
\* answer-generation error whose chain ends in the original failure, with no
\* answer returned; the blank question's ValueError is raised unwrapped.
FailuresWrappedOnce ==
    Asked =>
        /\ (last.args.searchFault # "none"
              \/ (Len(last.calls) = 2 /\ ~last.args.engine.ok))
             => last.outcome = "raise"
        /\ last.outcome = "raise" =>
             /\ last.value = <<>>
             /\ IF IsBlank(last.args.question)
                THEN /\ Len(last.exc) = 1
                     /\ Head(last.exc).type = "ValueError"
                     /\ last.status = 400
                ELSE /\ Head(last.exc)
                          = Layer("Exception", "answer generation error")
                     /\ \A i \in 2..Len(last.exc) :
                           last.exc[i].msg # "answer generation error"
                     /\ <<last.exc[Len(last.exc)]>> = InjectedFault
                     /\ last.status = 500

\* a failed store query, wrapped by the search and then by the answerer
FailuresWrappedWitness ==
    /\ Asked
    /\ last.args.searchFault = "query"
    /\ last.exc = <<Layer("Exception", "answer generation error"),
                    Layer("Exception", "search_similar_documents failed"),
                    Layer("LibraryError", "store")>>

\* the documents the answerer's search returned (when it returned)
Retrieved ==
    QueryResults(last.before, Encode(last.args.question), last.args.ranking)

Searched == last.op = "search_similar_documents" /\ last.outcome = "return"

Generated == Asked /\ Len(last.calls) = 2

\* "[title]\n<text>" of one document
Entry(doc) == <<"J:[">> \o doc.metadata.title \o <<"J:]", "\n">> \o doc.document

\* entries joined by a blank line
Joined(entries) ==
    Concat([i \in 1..Len(entries) |->
               IF i = 1 THEN entries[i] ELSE <<"\n", "\n">> \o entries[i]])

HasText(doc) == doc.document # <<>>

\* the context as the claim words it: every document of a non-empty result
ContextOfAll(docs) ==
    IF docs = <<>> THEN Sentinel
    ELSE Joined([i \in 1..Len(docs) |-> Entry(docs[i])])

\* the context of the documents that have text
ContextOfTexts(docs) ==
    LET texts == SelectSeq(docs, HasText)
    IN  IF texts = <<>> THEN Sentinel
        ELSE Joined([i \in 1..Len(texts) |-> Entry(texts[i])])

\* C5 as worded: the context of a non-empty retrieval result holds an entry
\* "[title]\n<text>" for each document of the result.
ContextOfEveryDocument ==
    /\ Searched => _build_context(last.value) = ContextOfAll(last.value)
    /\ Generated =>
          last.calls[2].messages[2].content
              = UserContent(ContextOfAll(Retrieved), last.args.question)

\* C5, amended: the context is the sentinel when no retrieved document has
\* text; otherwise the entries "[title]\n<text>" of the documents that have
\* text, in retrieval order, joined by a blank line.
ContextOfDocumentsWithText ==
    /\ Searched => _build_context(last.value) = ContextOfTexts(last.value)
    /\ Generated =>
          last.calls[2].messages[2].content
              = UserContent(ContextOfTexts(Retrieved), last.args.question)

\* the result [{A, t1}, {B, t2}] and its context
ContextWitness ==
    /\ Searched
    /\ Len(last.value) = 2
    /\ last.value[1].metadata.title = <<"A">>
    /\ last.value[2].metadata.title = <<"B">>
    /\ _build_context(last.value)
          = <<"J:[", "A", "J:]", "\n", "t", "1", "\n", "\n",
              "J:[", "B", "J:]", "\n", "t", "2">>

\* C6: a non-blank question that matches no phrase, with no failure, makes
\* one search call with the question as given and n_results 3 and then one
\* completion call, whose user message holds the context built from the
\* search result followed by the question as given; the answer is the
\* generated text unchanged.
PipelineInOrder ==
    (/\ Asked
     /\ ~IsBlank(last.args.question)
     /\ ~Matches(greetings, last.args.question)
     /\ ~Matches(thanks, last.args.question)
     /\ ~Matches(goodbye, last.args.question)
     /\ last.args.searchFault = "none"
     /\ last.args.engine.ok) =>
        /\ Len(last.calls) = 2
        /\ last.calls[1] = [fn |-> "search_similar_documents",
                            query |-> last.args.question, n_results |-> 3]
        /\ last.calls[2].fn = "chat.completions.create"
        /\ Len(last.calls[2].messages) = 2
        /\ last.calls[2].messages[2].role = "user"
        /\ \E before, between, after \in
                {UserHead, UserMid, UserTail} :
              last.calls[2].messages[2].content
                  = before \o _build_context(Retrieved) \o between
                      \o last.args.question \o after
        /\ last.outcome = "return"
        /\ last.value = last.args.engine.text

\* "t " asked with a document stored, answered with the text " ok\n"
PipelineWitness ==
    /\ Asked
    /\ last.args.question = <<"t", " ">>
    /\ Len(Retrieved) >= 1
    /\ Len(last.calls) = 2
    /\ last.value = <<" ", "o", "k", "\n">>

\* C7: delete_all_documents on a collection of N records returns success
\* with deleted_count N and leaves the collection empty.
DeleteAllCount ==
    (last.op = "delete_all_documents" /\ last.args.fault = "none") =>
        /\ last.outcome = "return"
        /\ last.value = [success |-> TRUE,
                         deleted_count |-> Cardinality(DOMAIN last.before)]
        /\ CollectionCount(store) = 0

DeleteAllWitness ==
    /\ last.op = "delete_all_documents"
    /\ Cardinality(DOMAIN last.before) = 2
    /\ last.value = [success |-> TRUE, deleted_count |-> 2]
    /\ store = <<>>

\* C8: a search returns at most n_results entries with non-decreasing
\* distances, and they are the store's entries in the store's order, none
\* dropped, repeated or reordered.
SearchOrderedAndBounded ==
    Searched =>
        /\ Len(last.value) <= last.args.n_results
        /\ \A i, j \in 1..Len(last.value) :
              i < j => /\ last.value[i].distance <= last.value[j].distance
                       /\ last.value[i].id # last.value[j].id
        /\ Len(last.value) = Len(last.args.ranking)
        /\ \A i \in 1..Len(last.value) :
              /\ last.value[i].id = last.args.ranking[i]
              /\ last.value[i].document = last.before[last.value[i].id].document
              /\ last.value[i].metadata = last.before[last.value[i].id].metadata
              /\ last.value[i].distance
                    = Distance(last.before[last.value[i].id].embedding,
                               Encode(last.args.query))

\* two records stored, one asked for: the nearer one is returned
SearchTruncatedWitness ==
    /\ Searched
    /\ last.args.n_results = 1
    /\ Len(last.value) = 1
    /\ \E x \in DOMAIN last.before :
          Distance(last.before[x].embedding, Encode(last.args.query))
              > last.value[1].distance

\* C9: a search for more records than are stored returns every stored
\* record exactly once; the number of results is min(n_results, count), and
\* on an empty collection the result is the empty sequence.
SearchReturnsAllWhenFew ==
    (/\ last.op = "search_similar_documents"
     /\ last.args.fault = "none"
     /\ last.args.n_results >= 1) =>
        /\ last.outcome = "return"
        /\ Len(last.value)
              = Min(last.args.n_results, Cardinality(DOMAIN last.before))
        /\ Cardinality(DOMAIN last.before) < last.args.n_results =>
              /\ {last.value[i].id : i \in 1..Len(last.value)}
                    = DOMAIN last.before
              /\ Len(last.value) = Cardinality(DOMAIN last.before)

\* two asked for, one stored
SearchFewWitness ==
    /\ Searched
    /\ last.args.n_results = 2
    /\ Cardinality(DOMAIN last.before) = 1
    /\ Len(last.value) = 1

\* what the caller of an endpoint can tell an error by
CallerSees(exc, status) == [type |-> Head(exc).type, status |-> status]

\* C10: get_document of an id that is not stored fails, leaves the
\* collection as it was, and fails in a way the caller can tell from the
\* failure of the store.
GetNotFoundDistinct ==
    (/\ last.op = "get_document"
     /\ last.args.fault = "none"
     /\ last.args.document_id \notin DOMAIN last.before) =>
        /\ last.outcome = "raise"
        /\ store = last.before
        /\ LET f == get_document(last.before, last.args.document_id,
                                 "get").res
           IN  CallerSees(last.exc, last.status)
                  # CallerSees(f.exc, documents_status("get_document", f))

Deleted ==
    /\ last.op = "delete_document"
    /\ last.args.fault = "none"

\* C11: delete_document of an id that is not stored does not fail, returns
\* true to a caller that is answered 200, and leaves every record and the
\* count as they were; after any delete_document of an id, deleting the
\* same id again changes nothing more.
DeleteAbsentNoOp ==
    /\ (Deleted /\ last.args.document_id \notin DOMAIN last.before) =>
          /\ last.outcome = "return"
          /\ last.value = TRUE
          /\ last.status = 200
          /\ store = last.before
          /\ CollectionCount(store) = CollectionCount(last.before)
    /\ Deleted =>
          LET again == delete_document(store, last.args.document_id, "none")
          IN  /\ again.res = Returned(TRUE)
              /\ again.store = store

\* an id that is not stored is deleted while another id is stored
DeleteAbsentWitness ==
    /\ Deleted
    /\ last.args.document_id \notin DOMAIN last.before
    /\ Cardinality(DOMAIN last.before) = 1
    /\ last.value = TRUE

\* the ids in a list of documents
IdsOf(documents) == {documents[i].id : i \in 1..Len(documents)}

\* C12: after a successful delete_document of an id, get_document of it
\* fails, no get_all_documents and no search_similar_documents result holds
\* it, and every other id is stored, or not, with the record it had.
DeletedIsGone ==
    (Deleted /\ last.outcome = "return") =>
        LET id == last.args.document_id
        IN  /\ id \notin DOMAIN store
            /\ get_document(store, id, "none").res.outcome = "raise"
            /\ \A order \in Orders(store) :
                  id \notin IdsOf(get_all_documents(store, order,
                                                    "none").res.value)
            /\ \A query \in Queries, n \in 1..MaxK :
                  \A r \in Rankings(store, Encode(query), n) :
                      id \notin IdsOf(search_similar_documents(
                                          store, query, n, r,
                                          "none").res.value)
            /\ \A y \in Ids \ {id} :
                  /\ y \in DOMAIN store <=> y \in DOMAIN last.before
                  /\ y \in DOMAIN store => store[y] = last.before[y]

\* one of two stored ids is deleted
DeletedIsGoneWitness ==
    /\ Deleted
    /\ last.outcome = "return"
    /\ last.args.document_id \in DOMAIN last.before
    /\ Cardinality(DOMAIN last.before) = 2
    /\ Cardinality(DOMAIN store) = 1

\* C13: answer_question leaves the collection as it found it on every
\* path: the blank question, the canned reply, the answer, and the failure
\* of the search or of the completion API.
AnswerWritesNothing ==
    Asked =>
        /\ store = last.before
        /\ \A x \in DOMAIN written :
              x \in DOMAIN store /\ store[x] = RecordOf(written[x])

\* the completion API fails after a search of a collection of two
AnswerWritesNothingWitness ==
    /\ Asked
    /\ last.outcome = "raise"
    /\ Len(last.calls) = 2
    /\ Cardinality(DOMAIN last.before) = 2

GreetingClassification ==
    (Asked /\ ~IsBlank(last.args.question)) =>
        LET q == last.args.question
            g == Matches(greetings, q)
            t == Matches(thanks, q)
            b == Matches(goodbye, q)
        IN  /\ last.calls = <<>> <=> (g \/ t \/ b)
            /\ (g \/ t \/ b) => last.outcome = "return"
            /\ g => last.value = GreetingReply
            /\ (~g /\ t) => last.value = ThanksReply
            /\ (~g /\ ~t /\ b) => last.value = GoodbyeReply
            /\ ~(g \/ t \/ b) =>
                  /\ Len(last.calls) >= 1
                  /\ last.calls[1] = SearchCall(q, ChatNResults)
            /\ Cardinality({GreetingReply, ThanksReply, GoodbyeReply}) = 3

\* a farewell followed by a greeting is answered as a greeting
GreetingPrecedenceWitness ==
    /\ Asked
    /\ last.args.question = <<"b", "y", "e", "h", "i">>
    /\ last.value = GreetingReply

\* the arguments and clock reading of the add_document that p is serving
CallOf(p) ==
    [title |-> procs[p].args.title, text |-> procs[p].args.text,
     now |-> procs[p].loc.now]

\* C16: while add_document calls race on an id, whatever get_document
\* returns for a stored id is the title, text, metadata and embedding of one
\* single call, namely of the call whose upsert was applied last; a call
\* whose existence check ran before another call's upsert loses nothing and
\* replaces the record whole.
RacingAddsReplaceWhole ==
    \A x \in DOMAIN store :
        /\ x \in DOMAIN written
        /\ get_document(store, x, "none").res
              = Returned(DocumentOf(x, written[x]))
        /\ \E d \in ConcDocs, now \in Times :
              store[x] = RecordOf([title |-> d.title, text |-> d.text,
                                   now |-> now])
        /\ \A p \in Procs :
              (/\ procs[p].kind = "add_document"
               /\ procs[p].pc = "readback"
               /\ procs[p].args.id = x
               /\ written[x] = CallOf(p)) => store[x] = RecordOf(CallOf(p))

\* two calls for one id, different documents, each checked before either
\* wrote, both upserts applied
RacingAddsWitness ==
    /\ procs["p"].kind = "add_document" /\ procs["q"].kind = "add_document"
    /\ procs["p"].pc = "readback" /\ procs["q"].pc = "readback"
    /\ procs["p"].args.id = procs["q"].args.id
    /\ procs["p"].args.title # procs["q"].args.title
    /\ ~procs["p"].loc.existing /\ ~procs["q"].loc.existing
    /\ written[procs["p"].args.id] = CallOf("q")

\* the record of id y in collection s, if any
RecordAt(s, y) == IF y \in DOMAIN s THEN <<s[y]>> ELSE <<>>

\* C17: in every interleaving of add_document and delete_document calls, a
\* step changes the record or absence of an id only if it is the upsert or
\* the delete of a call on that very id, and then to what that call alone
\* produces: the call's record, or absence.
DifferentIdsIndependent ==
    [][\A y \in Ids :
          RecordAt(store', y) # RecordAt(store, y) =>
              \E p \in Procs :
                  /\ procs'[p] # procs[p]
                  /\ procs[p].args.id = y
                  /\ \/ /\ procs[p].kind = "add_document"
                        /\ procs[p].pc = "upsert"
                        /\ RecordAt(store', y) = <<RecordOf(CallOf(p))>>
                     \/ /\ procs[p].kind = "delete_document"
                        /\ procs[p].pc = "delete"
                        /\ RecordAt(store', y) = <<>>]_vars

\* a delete of one id ran while an add of the other id was under way; the
\* add's record is stored, the deleted id is not
DifferentIdsWitness ==
    /\ procs["p"].kind = "add_document"
    /\ procs["p"].pc = "readback"
    /\ procs["q"].kind = "delete_document"
    /\ procs["q"].pc = "return"
    /\ procs["q"].loc.overlap
    /\ procs["q"].args.id # procs["p"].args.id
    /\ RecordAt(store, procs["p"].args.id) = <<RecordOf(CallOf("p"))>>
    /\ RecordAt(store, procs["q"].args.id) = <<>>

\* the two complete runs of answer_question
StagePaths ==
    {<<"ValidatingInput", "ShortCircuitReply", "Done">>,
     <<"ValidatingInput", "Retrieving", "BuildingContext", "Generating",
       "Done">>}

IsPrefix(a, b) == Len(a) <= Len(b) /\ SubSeq(b, 1, Len(a)) = a

\* a run so far: the start of a complete run, or the start of one up to a
\* stage that is not terminal, followed by Failed
AllowedTrace(t) ==
    \E path \in StagePaths :
        \/ IsPrefix(t, path)
        \/ /\ Len(t) >= 2
           /\ t[Len(t)] = "Failed"
           /\ Len(t) - 1 < Len(path)
           /\ IsPrefix(SubSeq(t, 1, Len(t) - 1), path)

Answering(p) == procs[p].kind = "answer_question"

\* C14: the stages an invocation of answer_question has been through are
\* always the start of ValidatingInput, ShortCircuitReply, Done or of
\* ValidatingInput, Retrieving, BuildingContext, Generating, Done, or such
\* a start cut at a non-terminal stage and followed by Failed; a step moves
\* to the one next stage; and, every collaborator call returning or
\* raising, each invocation reaches Done or Failed.
StagesInOrder ==
    /\ [](\A p \in Procs :
             Answering(p) =>
                 /\ AllowedTrace(procs[p].loc.trace)
                 /\ procs[p].loc.trace[Len(procs[p].loc.trace)] = procs[p].pc)
    /\ [][\A p \in Procs :
             (Answering(p) /\ procs'[p] # procs[p]) =>
                 \/ procs'[p] = IdleProc
                 \/ /\ procs[p].pc \notin {"Done", "Failed"}
                    /\ procs'[p].loc.trace
                          = Append(procs[p].loc.trace, procs'[p].pc)]_vars
    /\ \A p \in Procs :
          (Answering(p) /\ procs[p].pc \notin {"Done", "Failed"})
             ~> (Answering(p) /\ procs[p].pc \in {"Done", "Failed"})

\* one invocation went through the four stages to Done while another
\* failed in the search
StagesWitness ==
    /\ Answering("p") /\ Answering("q")
    /\ procs["p"].loc.trace
          = <<"ValidatingInput", "Retrieving", "BuildingContext",
              "Generating", "Done">>
    /\ procs["q"].loc.trace = <<"ValidatingInput", "Retrieving", "Failed">>

Finished(p) == Answering(p) /\ procs[p].pc \in {"Done", "Failed"}

\* C15: an invocation whose first request to the completion API meets a
\* network or rate-limit failure, and whose next request would succeed,
\* ends in Done with the completion as its answer.
TransientFailureRetried ==
    \A p \in Procs :
        (Finished(p) /\ procs[p].loc.plan = <<Transient, Completion>>) =>
            /\ procs[p].pc = "Done"
            /\ procs[p].loc.res = Returned(Completion.text)

\* the request of the completion API was made: the invocation is past
\* Generating, with an answer
Generation(p) ==
    Answering(p) /\ procs[p].pc = "Done" /\ procs[p].loc.plan # <<>>

\* C19: two invocations with the same question, the same collection and
\* ranking at the search, and the same response of the completion API sent
\* the same messages and returned the same answer, whatever was answered
\* before or is answered beside them; the messages are those built from the
\* invocation's own question and search result and from nothing else.
TurnsIndependent ==
    \A p, q \in Procs :
        (/\ Generation(p) /\ Generation(q)
         /\ procs[p].args.question = procs[q].args.question
         /\ procs[p].loc.seen = procs[q].loc.seen
         /\ procs[p].loc.ranking = procs[q].loc.ranking
         /\ Head(procs[p].loc.plan) = Head(procs[q].loc.plan)) =>
            /\ procs[p].loc.messages = procs[q].loc.messages
            /\ procs[p].loc.res = procs[q].loc.res
            /\ procs[p].loc.messages
                  = Messages(_build_context(
                                 search_similar_documents(
                                     procs[p].loc.seen,
                                     procs[p].args.question, ChatNResults,
                                     procs[p].loc.ranking, "none").res.value),
                             procs[p].args.question)

\* the same question was answered twice over the same collection of two,
\* once as the first question and once after another one was answered
TurnsWitness ==
    /\ Generation("p") /\ Generation("q")
    /\ procs["p"].args.question = procs["q"].args.question
    /\ procs["p"].loc.seen = procs["q"].loc.seen
    /\ procs["p"].loc.ranking = procs["q"].loc.ranking
    /\ Cardinality(DOMAIN procs["p"].loc.seen) = 2
    /\ procs["p"].loc.previous = <<>>
    /\ procs["q"].loc.previous = <<<<"h", "i">>>>

\* the title of the entry of the document at position i of a result
EntryTitle(docs, i) ==
    IF "title" \in DOMAIN docs[i].metadata THEN docs[i].metadata.title
    ELSE <<"J:bun", "J:sho", Digit(i)>>

\* the positions of a result whose document has text, in order
TextPositions(docs) ==
    LET WithText(i) == docs[i].document # <<>>
    IN  SelectSeq([i \in 1..Len(docs) |-> i], WithText)

\* C21: the context has no entry for a document with empty text and is the
\* sentinel when no document has text; the entry of a document without a
\* title is headed by the placeholder numbered with the document's 1-based
\* position in the result, documents with empty text counted.
PlaceholderByPosition ==
    last.op = "_build_context" =>
        LET docs == last.args.documents
            kept == TextPositions(docs)
        IN  last.value =
              IF kept = <<>> THEN Sentinel
              ELSE Joined([n \in 1..Len(kept) |->
                              <<"J:[">> \o EntryTitle(docs, kept[n])
                                 \o <<"J:]", "\n">>
                                 \o docs[kept[n]].document])

\* a document with empty text, then one with text and no title: the one
\* entry is headed "document 2"
PlaceholderWitness ==
    /\ last.op = "_build_context"
    /\ Len(last.args.documents) = 2
    /\ last.args.documents[1].document = <<>>
    /\ "title" \notin DOMAIN last.args.documents[2].metadata
    /\ last.value = <<"J:[", "J:bun", "J:sho", "2", "J:]", "\n", "t", "1">>

\* C22: after any sequence of add_document, delete_document and
\* delete_all_documents, the count of get_collection_info is the number of
\* entries of get_all_documents and the number of ids added and not deleted
\* since; an add of a stored id leaves the count as it was, and
\* get_all_documents lists each such id once, with no embedding.
CountMatchesListing ==
    /\ \A order \in Orders(store) :
          LET info == get_collection_info(store, "none").res.value
              listed == get_all_documents(store, order, "none").res.value
          IN  /\ info.count = Len(listed)
              /\ info.count = Cardinality(DOMAIN written)
              /\ IdsOf(listed) = DOMAIN written
              /\ \A i, j \in 1..Len(listed) :
                    listed[i].id = listed[j].id => i = j
              /\ \A i \in 1..Len(listed) :
                    DOMAIN listed[i] = {"id", "document", "metadata"}
    /\ UpsertApplied =>
          CollectionCount(store)
             = CollectionCount(last.before)
                  + (IF last.args.id \in DOMAIN last.before THEN 0 ELSE 1)
    /\ (last.op = "get_collection_info" /\ last.outcome = "return") =>
          last.value.count = Cardinality(DOMAIN written)
    /\ (last.op = "get_all_documents" /\ last.outcome = "return") =>
          Len(last.value) = Cardinality(DOMAIN written)

\* a stored id is added again, with an empty text, beside another id
CountWitness ==
    /\ UpsertApplied
    /\ last.args.id \in DOMAIN last.before
    /\ last.args.text = <<>>
    /\ CollectionCount(last.before) = 2
    /\ CollectionCount(store) = 2

DeletingAll(p) == procs[p].kind = "delete_all_documents"

\* C23: delete_all_documents counts, lists the ids, deletes exactly the
\* listed ids (no delete call at all when the list is empty) and counts
\* again, in this order, and reports success with deleted_count the first
\* count minus the second; when the collection was changed by nobody else
\* between these statements, deleted_count is the number of records
\* removed, is not negative, and is 0 on an empty collection.
DeleteAllFourSteps ==
    /\ [](\A p \in Procs :
             (DeletingAll(p) /\ procs[p].pc = "return") =>
                 LET loc == procs[p].loc
                 IN  /\ loc.res.value.success = TRUE
                     /\ loc.res.value.deleted_count
                           = loc.count_before - loc.count_after
                     /\ loc.called <=> loc.all_ids # {}
                     /\ loc.quiet =>
                           /\ loc.res.value.deleted_count = loc.removed
                           /\ loc.res.value.deleted_count
                                 = Cardinality(loc.all_ids)
                           /\ loc.res.value.deleted_count >= 0
                           /\ loc.all_ids = {} =>
                                 loc.res.value.deleted_count = 0)
    /\ [][\A p \in Procs :
             (DeletingAll(p) /\ procs'[p] # procs[p]) =>
                 /\ <<procs[p].pc, procs'[p].pc>> \in
                       {<<"count_before", "get">>, <<"get", "delete">>,
                        <<"get", "count_after">>, <<"delete", "count_after">>,
                        <<"count_after", "return">>,
                        <<"count_before", "raise">>, <<"get", "raise">>,
                        <<"delete", "raise">>, <<"count_after", "raise">>,
                        <<"return", "idle">>, <<"raise", "idle">>}
                 /\ procs'[p].pc = "count_after" /\ procs[p].pc = "delete" =>
                       store' = [x \in (DOMAIN store) \ procs[p].loc.all_ids
                                    |-> store[x]]
                 /\ ~(procs'[p].pc = "count_after" /\ procs[p].pc = "delete")
                       => store' = store]_vars

\* one call removed two records and reported 2; the next found the
\* collection empty, made no delete call and reported 0
DeleteAllStepsWitness ==
    /\ DeletingAll("p") /\ DeletingAll("q")
    /\ procs["p"].pc = "return" /\ procs["q"].pc = "return"
    /\ procs["p"].loc.quiet /\ procs["q"].loc.quiet
    /\ procs["p"].loc.all_ids = {"x", "y"}
    /\ procs["p"].loc.res.value.deleted_count = 2
    /\ procs["q"].loc.all_ids = {}
    /\ ~procs["q"].loc.called
    /\ procs["q"].loc.res.value = [success |-> TRUE, deleted_count |-> 0]

\* the existence check or the encoding of an add_document failed
AddFailedEarly ==
    /\ last.op = "add_document"
    /\ last.args.fault \in {"get", "encode"}

\* C24: when the existence check or the encoding of add_document fails, no
\* upsert is made: the collection is as before, the record stored under the
\* id, if any, is read back with the vector, text and metadata it had, and
\* the caller gets the failure (the wrapped cause, answered 500), not a
\* result.
FailedAddChangesNothing ==
    AddFailedEarly =>
        /\ store = last.before
        /\ RecordAt(store, last.args.id) = RecordAt(last.before, last.args.id)
        /\ get_document(store, last.args.id, "none").res
              = get_document(last.before, last.args.id, "none").res
        /\ \A x \in DOMAIN written :
              x \in DOMAIN store /\ store[x] = RecordOf(written[x])
        /\ last.outcome = "raise"
        /\ last.value = <<>>
        /\ last.exc = Wrap("add_document failed",
                           Fault(IF last.args.fault = "get" THEN "store"
                                 ELSE "encoder"))
        /\ last.status = 500

\* the encoding fails in an add of a stored id with another text
FailedAddWitness ==
    /\ AddFailedEarly
    /\ last.args.fault = "encode"
    /\ last.args.id \in DOMAIN last.before
    /\ last.before[last.args.id].document # last.args.text
    /\ last.outcome = "raise"

====
